---- MODULE Spec2Model ----
(***************************************************************************)
(* Model of the AQI retrieval and plotting scripts:                        *)
(*   src/data_fetch.py         get_aqicn_air_quality_data                  *)
(*   src/visual_matplotlib.py  plot_air_quality_parameters,                *)
(*                             plot_parameter_comparison,                  *)
(*                             create_aqi_dashboard                        *)
(* The program is single-threaded: every call runs to completion.  A call  *)
(* is one action; `call` records the arguments it was given and `result`   *)
(* what it returned, printed, wrote and drew.                              *)
(*                                                                         *)
(* Text is a sequence of one-character strings.  The characters stand for  *)
(* the classes Python's str methods distinguish:                           *)
(*   "B" ASCII upper-case letter      "b" ASCII lower-case letter          *)
(*   "7" ASCII digit                  " " white space                      *)
(*   "," comma   "(" parenthesis      "-" other ASCII punctuation          *)
(*   "UE" U+00DC, "ue" U+00FC  (non-ASCII letters, a case pair)            *)
(*   "d3" U+0663 (a non-ASCII decimal digit)                               *)
(***************************************************************************)
EXTENDS Integers, Sequences, FiniteSets, TLC

VARIABLES pc, call, result

vars == <<pc, call, result>>

(***************************************************************************)
(* Bounds of the model.                                                    *)
(***************************************************************************)
MaxIaqi == 2
MaxGeo == 3
MaxNameLen == 3
MaxRows == 3

(***************************************************************************)
(* Python str methods, per character class.                                *)
(***************************************************************************)
\* The letters of the literal "Unbekannt" are ASCII letters as well.
AsciiUpper == {"B", "U"}
AsciiLower == {"b", "u", "n", "e", "k", "a", "t"}
AsciiDigit == {"7"}
AsciiAlnum == AsciiUpper \cup AsciiLower \cup AsciiDigit
UnicodeAlnum == {"UE", "ue", "d3"}
Whitespace == {" "}
\* The characters input text is drawn from.
Chars == {"B", "b", "7", "UE", "ue", "d3", " ", ",", "(", "-"}

\* str.isalnum() of one character: true of every Unicode letter and digit.
IsAlnum(c) == c \in AsciiAlnum \cup UnicodeAlnum

\* str.lower() of one character.
LowerChar(c) ==
    CASE c = "B" -> "b" [] c = "U" -> "u" [] c = "UE" -> "ue" [] OTHER -> c

\* str.lower()
Lower(s) == [i \in 1..Len(s) |-> LowerChar(s[i])]

\* s.split(sep)[0]: the text before the first occurrence of sep, all of s
\* when sep does not occur.
RECURSIVE SplitFirst(_, _)
SplitFirst(s, sep) ==
    IF s = <<>> \/ Head(s) = sep THEN <<>>
    ELSE <<Head(s)>> \o SplitFirst(Tail(s), sep)

\* str.lstrip(), str.rstrip(), str.strip() with no argument.
RECURSIVE LStrip(_)
LStrip(s) == IF s # <<>> /\ Head(s) \in Whitespace THEN LStrip(Tail(s)) ELSE s

RECURSIVE RStrip(_)
RStrip(s) ==
    IF s # <<>> /\ s[Len(s)] \in Whitespace
    THEN RStrip(SubSeq(s, 1, Len(s) - 1))
    ELSE s

Strip(s) == RStrip(LStrip(s))

\* location.split(',')[0].split('(')[0].strip()
PrimaryOnlyComma(s) == Strip(SplitFirst(s, ","))
PrimaryComponent(s) == Strip(SplitFirst(SplitFirst(s, ","), "("))

\* ''.join(c if c.isalnum() else '_' for c in name)
Sanitize(s) == [i \in 1..Len(s) |-> IF IsAlnum(s[i]) THEN s[i] ELSE "_"]

(***************************************************************************)
(* get_aqicn_air_quality_data: the decoded upstream response.              *)
(*   status   "ok", "error", or "absent" (no "status" key)                 *)
(*   hasData  the "data" key is present                                    *)
(*   hasCity, hasName, name   data.city and data.city.name                 *)
(*   hasGeo, geo              data.city.geo, a list                        *)
(*   iso      data.time.iso: "absent", "valid" (parses) or "invalid"       *)
(*   iaqi     data.iaqi in iteration order; each entry is a mapping with   *)
(*            "v" (kind "dict_v"), a mapping without it ("dict_no_v") or   *)
(*            not a mapping ("scalar")                                     *)
(*   hasAttr  data.attributions is present                                 *)
(***************************************************************************)
Params == {"pm25", "o3", "no2"}
Values == {7, 55}
Entries ==
    {[param |-> p, kind |-> k, v |-> v] :
        p \in Params, k \in {"dict_no_v", "scalar"}, v \in {0}}
    \cup {[param |-> p, kind |-> "dict_v", v |-> v] : p \in Params, v \in Values}

\* A mapping has each key once.
DistinctParams(es) ==
    \A i, j \in 1..Len(es) : es[i].param = es[j].param => i = j

Iaqis ==
    UNION {{es \in [1..n -> Entries] : DistinctParams(es)} : n \in 0..MaxIaqi}

GeoList(n) == [i \in 1..n |-> 50 + i]
Geos == {GeoList(n) : n \in 0..MaxGeo}

StationNames == {<<>>, <<"B", "b">>, <<"B", ",", " ", "b">>, <<" ", "UE", "(", "7">>}

Cities ==
    {[hasCity |-> FALSE, hasName |-> FALSE, name |-> <<>>,
      hasGeo |-> FALSE, geo |-> <<>>]}
    \cup {[hasCity |-> TRUE, hasName |-> hn, name |-> nm, hasGeo |-> hg, geo |-> g] :
            hn \in BOOLEAN, nm \in StationNames, hg \in BOOLEAN, g \in Geos}

CanonicalCity(c) ==
    /\ (~c.hasName => c.name = <<>>)
    /\ (~c.hasGeo => c.geo = <<>>)

CanonicalCities == {c \in Cities : CanonicalCity(c)}
IsoKinds == {"absent", "valid", "invalid"}

NoPayload ==
    [city |-> [hasCity |-> FALSE, hasName |-> FALSE, name |-> <<>>,
               hasGeo |-> FALSE, geo |-> <<>>],
     iso |-> "absent", iaqi |-> <<>>, hasAttr |-> FALSE]

(***************************************************************************)
(* get_aqicn_air_quality_data(city, token, save_csv)                       *)
(***************************************************************************)
Unbekannt == <<"U", "n", "b", "e", "k", "a", "n", "n", "t">>

\* station_data.get("city", {}).get("name", "Unbekannt")
StationNameNoDefault(d) == d.city.name
StationName(d) ==
    IF d.city.hasCity /\ d.city.hasName THEN d.city.name ELSE Unbekannt

\* pd.to_datetime(station_data.get("time", {}).get("iso"), utc=True):
\* None for None, a UTC instant for text that parses; raises otherwise.
Timestamp(d) == IF d.iso = "absent" THEN "None" ELSE "utc_instant"

\* isinstance(value_dict, dict) and "v" in value_dict
Qualifies(e) == e.kind = "dict_v"

\* The loop over iaqi.items(): one row per qualifying entry, in order.
RECURSIVE Measurements(_, _)
Measurements(d, es) ==
    IF es = <<>> THEN <<>>
    ELSE (IF Qualifies(Head(es))
          THEN <<[location |-> StationName(d),
                  parameter |-> Head(es).param,
                  value |-> Head(es).v,
                  unit |-> <<"A", "Q", "I">>,
                  datetime |-> Timestamp(d)]>>
          ELSE <<>>) \o Measurements(d, Tail(es))

\* station_data.get("city", {}).get("geo", [0, 0])
GeoOrDefault(d) ==
    IF d.city.hasCity /\ d.city.hasGeo THEN d.city.geo ELSE <<0, 0>>

\* str(station_data.get("attributions", []))
Attribution(d) == IF d.hasAttr THEN "str(attributions)" ELSE "[]"

\* df["lat"], df["lon"], df["attribution"]: the same value in every row.
\* Python indexes from 0: geo[0] is g[1] here.
WithStation(rows, d) ==
    [i \in 1..Len(rows) |->
        [location |-> rows[i].location, parameter |-> rows[i].parameter,
         value |-> rows[i].value, unit |-> rows[i].unit,
         datetime |-> rows[i].datetime,
         lat |-> GeoOrDefault(d)[1], lon |-> GeoOrDefault(d)[2],
         attribution |-> Attribution(d)]]

\* The name the CSV file is called after: the argument, or the primary
\* component of the first row's location, in lower case.
CsvCityName(city, rows) ==
    IF rows # <<>> THEN Lower(PrimaryComponent(rows[1].location))
    ELSE Lower(city)

CsvFile(city, rows) ==
    [prefix |-> "aqicn_luftqualitaet",
     name |-> Sanitize(CsvCityName(city, rows)),
     stamp |-> "%Y%m%d-%H%M", ext |-> "csv"]

\* What a call leaves behind: how it ended ("df": returned a table, "None":
\* returned None, "raised": an exception left it), the table returned, the
\* files written, the diagnostics printed, the place name it derived (the
\* city_name of the CSV message, the location of a figure's title), and the
\* figure drawn and whether it was presented.
NoFigure ==
    [location |-> <<>>, series |-> <<>>, xformat |-> "none",
     overlay |-> FALSE, ylim |-> <<>>, regions |-> <<>>, labels |-> <<>>,
     bars |-> <<>>]

Raised(exc, printed) ==
    [outcome |-> "raised", exc |-> exc, rows |-> <<>>, files |-> <<>>,
     printed |-> printed, named |-> <<>>, shown |-> FALSE, fig |-> NoFigure]

ReturnedNone(printed) ==
    [outcome |-> "None", exc |-> "", rows |-> <<>>, files |-> <<>>,
     printed |-> printed, named |-> <<>>, shown |-> FALSE, fig |-> NoFigure]

\* What the call does, statement by statement.  Only
\* requests.exceptions.RequestException is caught; KeyError, ValueError and
\* IndexError leave the function.
StatusCheckSkipped(resp) == FALSE
StatusNotOk(resp) == resp.status # "ok"

FetchResult(resp, city, save_csv) ==
    IF resp.status = "absent" THEN Raised("KeyError", <<>>)
    ELSE IF StatusNotOk(resp) THEN ReturnedNone(<<"API-Fehler">>)
    ELSE IF ~resp.hasData THEN ReturnedNone(<<"Keine Daten">>)
    ELSE IF resp.data.iso = "invalid" THEN Raised("ValueError", <<>>)
    ELSE IF Len(GeoOrDefault(resp.data)) < 2 THEN Raised("IndexError", <<>>)
    ELSE LET rows == WithStation(Measurements(resp.data, resp.data.iaqi),
                                 resp.data)
         IN  [outcome |-> "df", exc |-> "", rows |-> rows,
              files |-> IF save_csv THEN <<CsvFile(city, rows)>> ELSE <<>>,
              printed |-> IF save_csv THEN <<"gespeichert">> ELSE <<>>,
              named |-> IF save_csv THEN CsvCityName(city, rows) ELSE <<>>,
              shown |-> FALSE, fig |-> NoFigure]

CityArgs == {<<"B", "b">>}

Fetch(resp, city, save_csv) ==
    /\ pc = "idle"
    /\ pc' = "done"
    /\ call' = [op |-> "fetch", resp |-> resp, city |-> city,
                save_csv |-> save_csv]
    /\ result' = FetchResult(resp, city, save_csv)

NoCall == [op |-> "none"]

Init ==
    /\ pc = "idle"
    /\ call = NoCall
    /\ result = ReturnedNone(<<>>)

\* A response with status "ok" and a payload: every shape of the payload.
FetchPayload ==
    /\ pc = "idle"
    /\ \E c \in CanonicalCities, t \in IsoKinds, q \in Iaqis, a \in BOOLEAN,
       city \in CityArgs, save_csv \in BOOLEAN :
        Fetch([status |-> "ok", hasData |-> TRUE,
               data |-> [city |-> c, iso |-> t, iaqi |-> q, hasAttr |-> a]],
              city, save_csv)

\* A response whose payload the code never reads.
FetchNoPayload ==
    /\ pc = "idle"
    /\ \E s \in {"ok", "error", "absent"}, h \in BOOLEAN,
       city \in CityArgs, save_csv \in BOOLEAN :
        /\ ~(s = "ok" /\ h)
        /\ Fetch([status |-> s, hasData |-> h, data |-> NoPayload],
                 city, save_csv)

FetchNext == FetchPayload \/ FetchNoPayload

SpecFetch == Init /\ [][FetchNext]_vars

(***************************************************************************)
(* The table the plotting functions are handed (load_air_quality_data):    *)
(* isNone (no table), the columns present, and the rows in file order.     *)
(* A row's datetime is in minutes; its unit is text, like its location.    *)
(***************************************************************************)
AllCols == {"location", "parameter", "value", "unit", "datetime"}
AQI == <<"A", "Q", "I">>

Table(rows) == [isNone |-> FALSE, cols |-> AllCols, rows |-> rows]

\* Series.unique(): the distinct values in order of first appearance.
RECURSIVE Unique(_)
Unique(seq) ==
    IF seq = <<>> THEN <<>>
    ELSE LET init == Unique(SubSeq(seq, 1, Len(seq) - 1))
             last == seq[Len(seq)]
         IN  IF \E i \in 1..Len(init) : init[i] = last THEN init
             ELSE Append(init, last)

ParameterColumn(rows) == [i \in 1..Len(rows) |-> rows[i].parameter]

\* df[df['parameter'] == param]: the positions of the matching rows.
AllRowsOf(rows, param) == 1..Len(rows)
RowsOf(rows, param) == {i \in 1..Len(rows) : rows[i].parameter = param}

\* sort_values('datetime') of the rows at positions idx: ascending datetime.
\* The default sort (quicksort) is not stable: rows with equal datetime come
\* out in an order the build decides, here the order `rank` gives them.
RECURSIVE SortValues(_, _, _)
SortValues(rows, idx, rank) ==
    IF idx = {} THEN <<>>
    ELSE LET first == CHOOSE i \in idx : \A j \in idx \ {i} :
                        \/ rows[i].datetime < rows[j].datetime
                        \/ /\ rows[i].datetime = rows[j].datetime
                           /\ rank[i] < rank[j]
         IN  <<first>> \o SortValues(rows, idx \ {first}, rank)

\* str.upper() of a parameter code.
Upper(p) ==
    CASE p = "pm25" -> "PM25" [] p = "o3" -> "O3" [] p = "no2" -> "NO2"
      [] OTHER -> p

\* The title's location: "Unbekannt", or the primary component of the first
\* row's location when the table has that column.
TitleLocation(t) ==
    IF "location" \in t.cols THEN PrimaryComponent(t.rows[1].location)
    ELSE Unbekannt

\* One line per parameter: its label and its points in plotting order.
SeriesOf(t, param, rank) ==
    LET order == SortValues(t.rows, RowsOf(t.rows, param), rank)
    IN  [label |-> [param |-> Upper(param),
                    unit |-> IF "unit" \in t.cols
                             THEN t.rows[order[1]].unit ELSE AQI],
         points |-> [k \in 1..Len(order) |->
                        <<t.rows[order[k]].datetime, t.rows[order[k]].value>>]]

AllSeries(t, params, rank) ==
    [k \in 1..Len(params) |-> SeriesOf(t, params[k], rank)]

\* min and max of a column.
MinOf(S) == CHOOSE x \in S : \A y \in S : x <= y
MaxOf(S) == CHOOSE x \in S : \A y \in S : x >= y

\* timedelta(hours=24), in minutes.
DayMinutes == 1440

\* The time axis: hour:minute when the table spans at most 24 hours,
\* day.month otherwise.
TimeRange(rows) ==
    LET ds == {rows[i].datetime : i \in 1..Len(rows)}
    IN  MaxOf(ds) - MinOf(ds)

ChooseFormatExclusive(rows) ==
    IF TimeRange(rows) < DayMinutes THEN "hourly" ELSE "daily"
ChooseFormat(rows) ==
    IF TimeRange(rows) <= DayMinutes THEN "hourly" ELSE "daily"

\* aqi_levels
AqiLevels ==
    << [low |-> 0,   high |-> 50,  label |-> "Gut", color |-> "green"],
       [low |-> 51,  high |-> 100, label |-> "Moderat", color |-> "yellow"],
       [low |-> 101, high |-> 150, label |-> "Ungesund fuer sensible Gruppen",
        color |-> "orange"],
       [low |-> 151, high |-> 200, label |-> "Ungesund", color |-> "red"],
       [low |-> 201, high |-> 300, label |-> "Sehr ungesund",
        color |-> "purple"],
       [low |-> 301, high |-> 500, label |-> "Gefaehrlich", color |-> "brown"] >>

Min2(a, b) == IF a <= b THEN a ELSE b
Max2(a, b) == IF a >= b THEN a ELSE b

\* "AQI" in ''.join(df['unit'].astype(str).tolist())
RECURSIVE Join(_)
Join(texts) == IF texts = <<>> THEN <<>> ELSE Head(texts) \o Join(Tail(texts))

Contains(text, word) ==
    \E k \in 0..(Len(text) - Len(word)) :
        SubSeq(text, k + 1, k + Len(word)) = word

UnitColumn(rows) == [i \in 1..Len(rows) |-> rows[i].unit]

OverlayWanted(rows) == Contains(Join(UnitColumn(rows)), AQI)

\* y_max = max(y_max, 300)
OverlayTop(y_max) == Max2(y_max, 300)

\* The loop over aqi_levels: axhspan(low, min(high, y_max)) for every band
\* with low <= y_max.
BandDrawnIfVisible(b, y_min, y_max) == b.low <= y_max /\ b.high >= y_min
BandDrawn(b, y_min, y_max) == b.low <= y_max

RECURSIVE Regions(_, _, _)
Regions(levels, y_min, y_max) ==
    IF levels = <<>> THEN <<>>
    ELSE (IF BandDrawn(Head(levels), y_min, y_max)
          THEN <<[low |-> Head(levels).low,
                  high |-> Min2(Head(levels).high, y_max),
                  color |-> Head(levels).color]>>
          ELSE <<>>) \o Regions(Tail(levels), y_min, y_max)

\* The label of a band, drawn only for a visible band, at
\* (low + min(high, y_max)) / 2: twice that height is kept.
RECURSIVE BandLabels(_, _, _)
BandLabels(levels, y_min, y_max) ==
    IF levels = <<>> THEN <<>>
    ELSE (IF /\ Head(levels).low <= y_max
             /\ Head(levels).high > y_min
             /\ Head(levels).low < y_max
          THEN <<[text |-> Head(levels).label,
                  twiceY |-> Head(levels).low + Min2(Head(levels).high, y_max)]>>
          ELSE <<>>) \o BandLabels(Tail(levels), y_min, y_max)

\* plt.ylim() after the lines are drawn: the view encloses the plotted
\* values with the margin matplotlib chose.
PlottedValues(series) ==
    UNION {{series[k].points[j][2] : j \in 1..Len(series[k].points)} :
              k \in 1..Len(series)}

YLim(series, margin) ==
    [y_min |-> MinOf(PlottedValues(series)) - margin,
     y_max |-> MaxOf(PlottedValues(series)) + margin]

PngFile(prefix, name) ==
    [prefix |-> prefix, name |-> name, stamp |-> "%Y%m%d", ext |-> "png"]

Returned(printed) ==
    [outcome |-> "None", exc |-> "", rows |-> <<>>, files |-> <<>>,
     printed |-> printed, named |-> <<>>, shown |-> FALSE, fig |-> NoFigure]

Drawn(fig, files) ==
    [outcome |-> "drawn", exc |-> "", rows |-> <<>>, files |-> files,
     printed |-> IF files = <<>> THEN <<>> ELSE <<"gespeichert">>,
     named |-> fig.location, shown |-> TRUE, fig |-> fig]

\* parameters: all the table's, or the requested ones the table has.
SelectedParameters(t, parameters) ==
    IF parameters.isNone THEN Unique(ParameterColumn(t.rows))
    ELSE SelectSeq(parameters.list,
                   LAMBDA p : \E i \in 1..Len(t.rows) : t.rows[i].parameter = p)

(***************************************************************************)
(* plot_air_quality_parameters(df, parameters, save_fig)                   *)
(***************************************************************************)
PlotResult(t, parameters, save_fig, margin, rank) ==
    IF t.isNone \/ t.rows = <<>> THEN Returned(<<"Keine Daten">>)
    ELSE IF ~({"parameter", "value", "datetime"} \subseteq t.cols)
    THEN Returned(<<"Erforderliche Spalten fehlen", "Vorhandene Spalten">>)
    ELSE IF SelectedParameters(t, parameters) = <<>>
    THEN Returned(<<"Keine gueltigen Parameter">>)
    ELSE IF "unit" \notin t.cols THEN Raised("KeyError", <<>>)
    ELSE
    LET series == AllSeries(t, SelectedParameters(t, parameters), rank)
        lim == YLim(series, margin)
        top == OverlayTop(lim.y_max)
        overlay == OverlayWanted(t.rows)
        location == TitleLocation(t)
    IN  Drawn([location |-> location,
               series |-> series,
               xformat |-> ChooseFormat(t.rows),
               overlay |-> overlay,
               ylim |-> IF overlay THEN <<lim.y_min, top>> ELSE <<>>,
               regions |-> IF overlay
                           THEN Regions(AqiLevels, lim.y_min, top) ELSE <<>>,
               labels |-> IF overlay
                          THEN BandLabels(AqiLevels, lim.y_min, top) ELSE <<>>,
               bars |-> <<>>],
              IF save_fig
              THEN <<PngFile("luftqualitaet", Sanitize(location))>> ELSE <<>>)

Plot(t, parameters, save_fig, margin, rank) ==
    /\ pc' = "done"
    /\ call' = [op |-> "plot", table |-> t, parameters |-> parameters,
                save_fig |-> save_fig, margin |-> margin]
    /\ result' = PlotResult(t, parameters, save_fig, margin, rank)

(***************************************************************************)
(* plot_parameter_comparison(df, parameter, save_fig)                      *)
(***************************************************************************)
\* Code point order of the characters, for sorting the group keys.
CodePointOrder ==
    <<" ", "(", ",", "-", "7", "A", "B", "I", "Q", "U", "a", "b", "e", "k",
      "n", "p", "t", "u", "UE", "ue", "d3">>
Ord(c) == CHOOSE k \in 1..Len(CodePointOrder) : CodePointOrder[k] = c

RECURSIVE TextLess(_, _)
TextLess(a, b) ==
    IF b = <<>> THEN FALSE
    ELSE IF a = <<>> THEN TRUE
    ELSE IF Head(a) = Head(b) THEN TextLess(Tail(a), Tail(b))
    ELSE Ord(Head(a)) < Ord(Head(b))

\* groupby('location'): the distinct keys, sorted.
RECURSIVE SortedTexts(_)
SortedTexts(S) ==
    IF S = {} THEN <<>>
    ELSE LET least == CHOOSE x \in S : \A y \in S \ {x} : TextLess(x, y)
         IN  <<least>> \o SortedTexts(S \ {least})

RECURSIVE Gcd(_, _)
Gcd(a, b) == IF b = 0 THEN a ELSE Gcd(b, a % b)

RECURSIVE SumValues(_, _)
SumValues(rows, idx) ==
    IF idx = {} THEN 0
    ELSE LET i == CHOOSE x \in idx : TRUE
         IN  rows[i].value + SumValues(rows, idx \ {i})

\* ['value'].mean() of the rows at positions idx: the fraction sum / count
\* in lowest terms (values are non-negative here).
Mean(rows, idx) ==
    LET total == SumValues(rows, idx)
        n == Cardinality(idx)
        g == Gcd(Max2(total, n), Min2(total, n))
    IN  [num |-> total \div g, den |-> n \div g]

\* param_data.groupby('location')['value'].mean(): one bar per location of
\* the parameter's rows.
LocationBars(rows, idx) ==
    LET keys == SortedTexts({rows[i].location : i \in idx})
    IN  [k \in 1..Len(keys) |->
            [location |-> keys[k],
             height |-> Mean(rows, {i \in idx : rows[i].location = keys[k]})]]

CompareResult(t, parameter, save_fig) ==
    IF t.isNone \/ t.rows = <<>> THEN Returned(<<"Keine Daten">>)
    ELSE IF ~({"parameter", "value", "location"} \subseteq t.cols)
    THEN Returned(<<"Erforderliche Spalten fehlen">>)
    ELSE IF RowsOf(t.rows, parameter) = {}
    THEN Returned(<<"Keine Daten fuer Parameter">>)
    ELSE Drawn([location |-> <<>>, series |-> <<>>, xformat |-> "none",
                overlay |-> FALSE, ylim |-> <<>>, regions |-> <<>>,
                labels |-> <<>>,
                bars |-> LocationBars(t.rows, RowsOf(t.rows, parameter))],
               IF save_fig THEN <<PngFile("vergleich", parameter)>> ELSE <<>>)

Compare(t, parameter, save_fig) ==
    /\ pc' = "done"
    /\ call' = [op |-> "compare", table |-> t, parameter |-> parameter,
                save_fig |-> save_fig]
    /\ result' = CompareResult(t, parameter, save_fig)

(***************************************************************************)
(* create_aqi_dashboard(df, save_fig)                                      *)
(***************************************************************************)
\* param_data.iloc[-1] of each parameter's sorted rows.
LatestBars(t, params, rank) ==
    [k \in 1..Len(params) |->
        LET order == SortValues(t.rows, RowsOf(t.rows, params[k]), rank)
        IN  [parameter |-> Upper(params[k]),
             value |-> t.rows[order[Len(order)]].value]]

DashboardResult(t, save_fig, rank) ==
    IF t.isNone \/ t.rows = <<>> THEN Returned(<<"Keine Daten">>)
    ELSE IF ~({"parameter", "datetime", "value"} \subseteq t.cols)
    THEN Raised("KeyError", <<>>)
    ELSE
    LET params == Unique(ParameterColumn(t.rows))
        location == TitleLocation(t)
    IN  Drawn([location |-> location,
               series |-> AllSeries(t, params, rank),
               xformat |-> ChooseFormat(t.rows),
               overlay |-> FALSE, ylim |-> <<>>, regions |-> <<>>,
               labels |-> <<>>,
               bars |-> LatestBars(t, params, rank)],
              IF save_fig
              THEN <<PngFile("dashboard", Sanitize(location))>> ELSE <<>>)

Dashboard(t, save_fig, rank) ==
    /\ pc' = "done"
    /\ call' = [op |-> "dashboard", table |-> t, save_fig |-> save_fig]
    /\ result' = DashboardResult(t, save_fig, rank)

(***************************************************************************)
(* File and title names: the three places a location becomes a name.       *)
(***************************************************************************)
RECURSIVE TextsOfLen(_)
TextsOfLen(n) ==
    IF n = 0 THEN {<<>>}
    ELSE {Append(x, c) : x \in TextsOfLen(n - 1), c \in Chars}

Locations == UNION {TextsOfLen(n) : n \in 0..MaxNameLen}

OneRow(location) ==
    <<[location |-> location, parameter |-> "pm25", value |-> 7,
       unit |-> AQI, datetime |-> 0]>>

NoTieBreak == <<1>>

\* The station reports `location` as its name; the table is saved.
NameCsv ==
    /\ pc = "idle"
    /\ \E location \in Locations, city \in CityArgs :
        Fetch([status |-> "ok", hasData |-> TRUE,
               data |-> [city |-> [hasCity |-> TRUE, hasName |-> TRUE,
                                   name |-> location,
                                   hasGeo |-> FALSE, geo |-> <<>>],
                         iso |-> "valid",
                         iaqi |-> <<[param |-> "pm25", kind |-> "dict_v",
                                     v |-> 7]>>,
                         hasAttr |-> FALSE]],
              city, TRUE)

NameSeriesPng ==
    /\ pc = "idle"
    /\ \E location \in Locations :
        Plot(Table(OneRow(location)), [isNone |-> TRUE, list |-> <<>>],
             TRUE, 0, NoTieBreak)

NameDashboardPng ==
    /\ pc = "idle"
    /\ \E location \in Locations :
        Dashboard(Table(OneRow(location)), TRUE, NoTieBreak)

NamesNext == NameCsv \/ NameSeriesPng \/ NameDashboardPng

SpecNames == Init /\ [][NamesNext]_vars

(***************************************************************************)
(* Tables of up to MaxRows rows, handed to the plotting functions.         *)
(***************************************************************************)
RowSeqs(RowSet) == UNION {[1..n -> RowSet] : n \in 0..MaxRows}

AllParameters == [isNone |-> TRUE, list |-> <<>>]

\* Tables whose rows differ in time and parameter: spans of 0 and 2 hours,
\* 22 hours, a day, a day and a minute.
AxisTimes == {0, 120, 1440, 1441}
AxisRows ==
    {[location |-> <<"B">>, parameter |-> p, value |-> 7, unit |-> AQI,
      datetime |-> d] : p \in {"pm25", "o3"}, d \in AxisTimes}
AxisRequests == {AllParameters, [isNone |-> FALSE, list |-> <<"o3", "no2">>]}

AxisSeries ==
    /\ pc = "idle"
    /\ \E rows \in RowSeqs(AxisRows), parameters \in AxisRequests :
        \E rank \in Permutations(1..Len(rows)) :
            Plot(Table(rows), parameters, FALSE, 0, rank)

AxisDashboard ==
    /\ pc = "idle"
    /\ \E rows \in RowSeqs(AxisRows) :
        \E rank \in Permutations(1..Len(rows)) :
            Dashboard(Table(rows), FALSE, rank)

AxisNext == AxisSeries \/ AxisDashboard

SpecAxis == Init /\ [][AxisNext]_vars

\* Tables whose rows differ in unit and value, one reading an hour.
OverlayUnits == {AQI, <<"p">>, <<"A">>, <<"Q", "I">>}
OverlayValues == {7, 120, 350}
OverlayCells ==
    {[unit |-> u, value |-> v] : u \in OverlayUnits, v \in OverlayValues}
OverlayTable(cells) ==
    Table([i \in 1..Len(cells) |->
            [location |-> <<"B">>, parameter |-> "pm25",
             value |-> cells[i].value, unit |-> cells[i].unit,
             datetime |-> 60 * i]])
Margins == {0, 4}

OverlaySeries ==
    /\ pc = "idle"
    /\ \E cells \in RowSeqs(OverlayCells), margin \in Margins :
        Plot(OverlayTable(cells), AllParameters, FALSE, margin,
             [i \in 1..Len(cells) |-> i])

OverlayNext == OverlaySeries

SpecOverlay == Init /\ [][OverlayNext]_vars

\* Tables whose rows differ in location, parameter and value.
CompareRows ==
    {[location |-> l, parameter |-> p, value |-> v, unit |-> AQI,
      datetime |-> 0] :
        l \in {<<"B">>, <<"b">>}, p \in {"pm25", "o3"}, v \in {5, 10, 20}}

CompareBars ==
    /\ pc = "idle"
    /\ \E rows \in RowSeqs(CompareRows), parameter \in Params :
        Compare(Table(rows), parameter, FALSE)

CompareNext == CompareBars

SpecCompare == Init /\ [][CompareNext]_vars

\* Tables that lack columns, and calls that ask for the figure to be saved
\* or not.  A row's value in a column the table lacks is never read.
CallRows ==
    {[location |-> <<"B">>, parameter |-> p, value |-> 7, unit |-> AQI,
      datetime |-> 0] : p \in {"pm25", "o3"}}
CallTables ==
    {[isNone |-> FALSE, cols |-> cs, rows |-> rows] :
        cs \in SUBSET AllCols, rows \in RowSeqs(CallRows)}

CallSeries ==
    /\ pc = "idle"
    /\ \E t \in CallTables, save_fig \in BOOLEAN :
        Plot(t, AllParameters, save_fig, 0, [i \in 1..Len(t.rows) |-> i])

CallComparison ==
    /\ pc = "idle"
    /\ \E t \in CallTables, save_fig \in BOOLEAN :
        Compare(t, "pm25", save_fig)

CallDashboard ==
    /\ pc = "idle"
    /\ \E t \in CallTables, save_fig \in BOOLEAN :
        Dashboard(t, save_fig, [i \in 1..Len(t.rows) |-> i])

CallsNext == CallSeries \/ CallComparison \/ CallDashboard

SpecCalls == Init /\ [][CallsNext]_vars

\* Tables whose rows share timestamps, sorted in every order the unstable
\* sort can give to rows of equal datetime.
LatestRows ==
    {[location |-> <<"B">>, parameter |-> "pm25", value |-> v, unit |-> AQI,
      datetime |-> d] : v \in {7, 55}, d \in {0, 60}}
      \cup {[location |-> <<"B">>, parameter |-> "o3", value |-> 7,
             unit |-> AQI, datetime |-> 60]}

LatestValues ==
    /\ pc = "idle"
    /\ \E rows \in RowSeqs(LatestRows) :
         \E rank \in Permutations(1..Len(rows)) :
             Dashboard(Table(rows), FALSE, rank)

LatestNext == LatestValues

SpecLatest == Init /\ [][LatestNext]_vars

(***************************************************************************)
(* Properties of get_aqicn_air_quality_data.                               *)
(***************************************************************************)
Fetched == pc = "done" /\ call.op = "fetch"
OkWithData == Fetched /\ call.resp.status = "ok" /\ call.resp.hasData
\* The snapshot's timestamp parses (or is absent).  An unparseable timestamp
\* invalidates the whole snapshot by design.
TimestampParses == call.resp.data.iso # "invalid"

QualifyingIndices(es) == {i \in 1..Len(es) : es[i].kind = "dict_v"}

\* C1: for every response with status "ok" and a data payload the call emits
\* exactly one row per entry of data.iaqi that is a mapping containing "v"
\* and no row for any other entry: the rows are as many as the qualifying
\* entries.
C1_OneRowPerQualifyingEntry ==
    (OkWithData /\ TimestampParses) =>
        LET es == call.resp.data.iaqi
            rows == result.rows
        IN  /\ Len(rows) = Cardinality(QualifyingIndices(es))
            /\ \A i \in QualifyingIndices(es) :
                 Cardinality({j \in 1..Len(rows) :
                     /\ rows[j].parameter = es[i].param
                     /\ rows[j].value = es[i].v}) = 1
            /\ \A j \in 1..Len(rows) :
                 \E i \in QualifyingIndices(es) :
                     rows[j].parameter = es[i].param

\* C2: a response that carries a status, whose status is not "ok" or whose
\* payload is absent, gives the no-result signal (None), zero rows and no
\* CSV file, and raises nothing.
C2_NotOkYieldsNone ==
    (/\ Fetched
     /\ call.resp.status # "absent"
     /\ (call.resp.status # "ok" \/ ~call.resp.hasData)) =>
        /\ result.outcome = "None"
        /\ result.exc = ""
        /\ result.rows = <<>>
        /\ result.files = <<>>

C2_Witness ==
    /\ Fetched
    /\ call.resp.status = "error"
    /\ call.resp.hasData
    /\ call.save_csv
    /\ result.outcome = "None"

NamePresent == call.resp.data.city.hasCity /\ call.resp.data.city.hasName
Unknown == <<"U", "n", "k", "n", "o", "w", "n">>

\* C3 as stated: every emitted row has a non-empty location, data.city.name
\* when the name is present and the literal "Unknown" when the city mapping
\* or its name is absent.
C3_LocationNonEmptyOrUnknown ==
    OkWithData =>
        \A j \in 1..Len(result.rows) :
            /\ result.rows[j].location # <<>>
            /\ NamePresent => result.rows[j].location = call.resp.data.city.name
            /\ ~NamePresent => result.rows[j].location = Unknown

\* C3 as amended: every emitted row's location is data.city.name when the
\* name is present (the empty text when the name is empty) and the literal
\* "Unbekannt" when the city mapping or its name is absent.
C3_LocationNameOrUnbekannt ==
    OkWithData =>
        \A j \in 1..Len(result.rows) :
            /\ NamePresent => result.rows[j].location = call.resp.data.city.name
            /\ ~NamePresent =>
                 result.rows[j].location =
                     <<"U", "n", "b", "e", "k", "a", "n", "n", "t">>

C3_Witness ==
    /\ OkWithData
    /\ ~NamePresent
    /\ Len(result.rows) = 2

\* C4: for every response with status "ok" the rows' lat and lon are the
\* first two elements of data.city.geo when it has at least two, and 0, 0
\* when the geo list is absent, empty or has one element; the call never
\* raises on the geo list.
C4_GeoOrZeroNeverRaises ==
    (OkWithData /\ TimestampParses) =>
        LET c == call.resp.data.city
            wellFormed == c.hasCity /\ c.hasGeo /\ Len(c.geo) >= 2
        IN  /\ result.outcome = "df"
            /\ \A j \in 1..Len(result.rows) :
                 IF wellFormed
                 THEN /\ result.rows[j].lat = c.geo[1]
                      /\ result.rows[j].lon = c.geo[2]
                 ELSE /\ result.rows[j].lat = 0
                      /\ result.rows[j].lon = 0

(***************************************************************************)
(* Properties of the derived names.                                        *)
(***************************************************************************)
\* The location text a call started from.
GivenLocation ==
    IF call.op = "fetch" THEN call.resp.data.city.name
    ELSE call.table.rows[1].location

Named == pc = "done" /\ Len(result.files) = 1

SafeChars == {"B", "b", "7", "_"}

\* C5: at the three call sites (CSV name, series PNG name, dashboard PNG
\* name) the sanitized component has the length of the name it was made
\* from and only characters of [A-Za-z0-9] and '_': every other character,
\* non-ASCII letters and digits included, has become '_'.
C5_OnlyAsciiAlnumAndUnderscore ==
    Named =>
        LET raw == result.named
            safe == result.files[1].name
        IN  /\ Len(safe) = Len(raw)
            /\ \A i \in 1..Len(safe) :
                 /\ safe[i] \in SafeChars
                 /\ safe[i] = IF raw[i] \in {"B", "b", "7"} THEN raw[i] ELSE "_"

Delimiters == {",", "("}

\* The text before the first ',' or '(' of s.
BeforeFirstDelimiter(s) ==
    LET at == {i \in 1..Len(s) : s[i] \in Delimiters}
    IN  IF at = {} THEN s ELSE SubSeq(s, 1, MinOf(at) - 1)

\* s without its leading and trailing white space.
Trimmed(s) ==
    LET inked == {i \in 1..Len(s) : s[i] # " "}
    IN  IF inked = {} THEN <<>> ELSE SubSeq(s, MinOf(inked), MaxOf(inked))

\* C6 as stated: the primary component is the text before the first ',' or
\* '(' with the white space around it removed, and the fetch path, the
\* series plot and the dashboard all derive that same text from a location.
C6_SamePrimaryEverywhere ==
    Named => result.named = Trimmed(BeforeFirstDelimiter(GivenLocation))

\* C6 as amended: the series plot and the dashboard derive the text before
\* the first ',' or '(' with the white space around it removed; the fetch
\* path derives that text in lower case.
C6_PrimaryLowerCasedByFetch ==
    Named =>
        result.named =
            IF call.op = "fetch"
            THEN Lower(Trimmed(BeforeFirstDelimiter(GivenLocation)))
            ELSE Trimmed(BeforeFirstDelimiter(GivenLocation))

C6_Witness ==
    /\ Named
    /\ call.op = "fetch"
    /\ GivenLocation = <<" ", "B", "(">>
    /\ result.named = <<"b">>

(***************************************************************************)
(* Properties of the figures.                                              *)
(***************************************************************************)
DrawnBy(op) == pc = "done" /\ call.op = op /\ result.outcome = "drawn"
TableRows == call.table.rows

\* The span of a table: the largest difference between two rows' datetimes.
SpanOf(rows) ==
    MaxOf({rows[i].datetime - rows[j].datetime :
              i \in 1..Len(rows), j \in 1..Len(rows)})

\* C7: in the series plot and in the dashboard the time axis is hourly
\* exactly when the span of all the table's rows is at most 24 hours (a span
\* of exactly 24 hours and of 0 included) and daily otherwise, so both draw
\* the same table with the same format.
C7_HourlyIffSpanAtMostDay ==
    (DrawnBy("plot") \/ DrawnBy("dashboard")) =>
        /\ result.fig.xformat \in {"hourly", "daily"}
        /\ result.fig.xformat = "hourly" <=> SpanOf(TableRows) <= 24 * 60

C7_Witness ==
    /\ DrawnBy("dashboard")
    /\ SpanOf(TableRows) = 24 * 60
    /\ Len(TableRows) = 3
    /\ result.fig.xformat = "hourly"

BandIndices == 1..6
BandLow(k) == <<0, 51, 101, 151, 201, 301>>[k]
BandHigh(k) == <<50, 100, 150, 200, 300, 500>>[k]

RegionsAsSet == {<<result.fig.regions[k].low, result.fig.regions[k].high>> :
                    k \in 1..Len(result.fig.regions)}

\* C8 as stated: the regions drawn for the overlay's y-range [y_min, y_max]
\* are exactly the bands that intersect the range, each with its low bound
\* clipped up to y_min and its high bound clipped down to y_max; a band
\* entirely above y_max or entirely below y_min gets no region.
C8_RegionsClippedToRange ==
    (DrawnBy("plot") /\ result.fig.overlay) =>
        LET y_min == result.fig.ylim[1]
            y_max == result.fig.ylim[2]
            hit == {k \in BandIndices :
                        BandLow(k) <= y_max /\ BandHigh(k) >= y_min}
        IN  /\ Len(result.fig.regions) = Cardinality(hit)
            /\ RegionsAsSet =
                 {<<Max2(BandLow(k), y_min), Min2(BandHigh(k), y_max)>> :
                     k \in hit}

\* C8 as amended: the regions drawn are exactly the bands whose low bound is
\* at most y_max, each from its own low bound (not clipped to y_min) up to
\* its high bound clipped down to y_max; a band entirely above y_max gets no
\* region, a band entirely below y_min still gets one.
C8_RegionsClippedAboveOnly ==
    (DrawnBy("plot") /\ result.fig.overlay) =>
        LET y_max == result.fig.ylim[2]
            hit == {k \in BandIndices : BandLow(k) <= y_max}
        IN  /\ Len(result.fig.regions) = Cardinality(hit)
            /\ RegionsAsSet =
                 {<<BandLow(k), Min2(BandHigh(k), y_max)>> : k \in hit}

C8_Witness ==
    /\ DrawnBy("plot")
    /\ result.fig.overlay
    /\ result.fig.ylim = <<116, 354>>
    /\ Len(result.fig.regions) = 6
    /\ result.fig.regions[6].high = 354

ContainsAQI(unit) ==
    \E k \in 1..Len(unit) :
        k + 2 <= Len(unit) /\ unit[k] = "A" /\ unit[k + 1] = "Q"
        /\ unit[k + 2] = "I"

\* C9: the series plot draws the AQI overlay exactly when every row's unit
\* contains "AQI"; when it draws it, the upper limit of its y-range is
\* max(the view's upper limit, 300) and the band (201, 300) has a region.
C9_OverlayIffEveryUnitAqi ==
    DrawnBy("plot") =>
        /\ result.fig.overlay <=>
             \A i \in 1..Len(TableRows) : ContainsAQI(TableRows[i].unit)
        /\ result.fig.overlay =>
             /\ result.fig.ylim[2] =
                  Max2(MaxOf({TableRows[i].value : i \in 1..Len(TableRows)})
                         + call.margin, 300)
             /\ \E k \in 1..Len(result.fig.regions) :
                  /\ result.fig.regions[k].low = 201
                  /\ result.fig.regions[k].high = 300

\* The rows of a table that report `parameter` at `location`, in order.
Matching(rows, location, parameter) ==
    SelectSeq(rows, LAMBDA r : r.location = location /\ r.parameter = parameter)

RECURSIVE Total(_)
Total(rows) == IF rows = <<>> THEN 0 ELSE Head(rows).value + Total(Tail(rows))

BarsAt(location) ==
    {k \in 1..Len(result.fig.bars) : result.fig.bars[k].location = location}

\* C10: plot_parameter_comparison draws exactly one bar per location that
\* has a row with the parameter, as high as the arithmetic mean (sum over
\* count) of those rows' values; a location without such a row has no bar,
\* and rows of other parameters change no mean.
C10_OneMeanBarPerLocation ==
    (pc = "done" /\ call.op = "compare") =>
        /\ \A k \in 1..Len(result.fig.bars) :
             \E i \in 1..Len(TableRows) :
                 TableRows[i].location = result.fig.bars[k].location
        /\ \A i \in 1..Len(TableRows) :
             LET location == TableRows[i].location
                 mine == Matching(TableRows, location, call.parameter)
             IN  IF mine = <<>> THEN BarsAt(location) = {}
                 ELSE /\ Cardinality(BarsAt(location)) = 1
                      /\ \A k \in BarsAt(location) :
                           /\ result.fig.bars[k].height.den > 0
                           /\ result.fig.bars[k].height.num * Len(mine)
                                = Total(mine) * result.fig.bars[k].height.den

C10_Witness ==
    /\ DrawnBy("compare")
    /\ call.parameter = "pm25"
    /\ TableRows =
         <<[location |-> <<"B">>, parameter |-> "pm25", value |-> 10,
            unit |-> AQI, datetime |-> 0],
           [location |-> <<"b">>, parameter |-> "o3", value |-> 5,
            unit |-> AQI, datetime |-> 0],
           [location |-> <<"B">>, parameter |-> "pm25", value |-> 20,
            unit |-> AQI, datetime |-> 0]>>
    /\ result.fig.bars =
         <<[location |-> <<"B">>, height |-> [num |-> 15, den |-> 1]]>>

(***************************************************************************)
(* Properties of the plotting calls.                                       *)
(***************************************************************************)
Plotted == pc = "done" /\ call.op \in {"plot", "compare", "dashboard"}

\* The columns each plotting operation reads.
ColumnsRead(op) ==
    IF op = "compare" THEN {"parameter", "value", "location", "unit"}
    ELSE {"parameter", "value", "datetime", "location", "unit"}

\* C11: a plotting operation handed a non-empty table that lacks a column
\* it reads reports the missing columns, returns without drawing, and
\* raises nothing.
C11_MissingColumnReportedNotRaised ==
    (/\ Plotted
     /\ call.table.rows # <<>>
     /\ ~(ColumnsRead(call.op) \subseteq call.table.cols)) =>
        /\ result.outcome = "None"
        /\ result.exc = ""
        /\ \E k \in 1..Len(result.printed) :
             result.printed[k] = "Erforderliche Spalten fehlen"
        /\ result.fig.series = <<>> /\ result.fig.bars = <<>>
        /\ ~result.shown

\* The call's result has a file written exactly if `persist` and the figure
\* presented exactly if `present`.
Produces(r, persist, present) ==
    /\ (r.files # <<>>) = persist
    /\ r.shown = present

\* The results the calls of each plotting operation can end with.
SeriesResults ==
    {PlotResult(t, AllParameters, save_fig, 0, [i \in 1..Len(t.rows) |-> i]) :
        t \in CallTables, save_fig \in BOOLEAN}
ComparisonResults ==
    {CompareResult(t, "pm25", save_fig) :
        t \in CallTables, save_fig \in BOOLEAN}
DashboardResults ==
    {DashboardResult(t, save_fig, [i \in 1..Len(t.rows) |-> i]) :
        t \in CallTables, save_fig \in BOOLEAN}

\* C12: in every plotting operation persisting the figure and presenting it
\* are gated independently: for each of the four combinations of (persist,
\* present) there is a call that produces exactly that combination, among
\* them one that writes the file without presenting the figure.
C12_PersistAndPresentIndependent ==
    pc = "idle" =>
        \A persist \in BOOLEAN, present \in BOOLEAN :
            /\ \E r \in SeriesResults : Produces(r, persist, present)
            /\ \E r \in ComparisonResults : Produces(r, persist, present)
            /\ \E r \in DashboardResults : Produces(r, persist, present)

\* The last row of the table among the parameter's rows with the greatest
\* datetime.
LastLatestRow(rows, param) ==
    CHOOSE i \in RowsOf(rows, param) :
        \A j \in RowsOf(rows, param) \ {i} :
            \/ rows[j].datetime < rows[i].datetime
            \/ rows[j].datetime = rows[i].datetime /\ j < i

====
